---- MODULE Spec2Model ----
(***************************************************************************)
(* Model of glustolibs/gluster/geo_rep_ops.py: the geo-replication helper  *)
(* library.  Every function formats one command string from its arguments, *)
(* hands it to the remote executor (g.run on one node, g.run_parallel on a *)
(* set of servers) and returns either the executor's triple or a boolean   *)
(* folded from it.                                                         *)
(*                                                                         *)
(* Strings are TLA+ strings, "%s" interpolation is concatenation (\o), the *)
(* Python 'in' test is a substring search.  A function of the library is   *)
(* an operator of its arguments and of the executor's answer; it yields    *)
(* the executor invocations it makes, the servers it logs an error for and *)
(* the value it returns.  One action per function applies it to arguments  *)
(* and to an executor answer drawn from small sets.                        *)
(***************************************************************************)
EXTENDS Integers, Sequences, FiniteSets, TLC

VARIABLES
    fn,       \* name of the function called last ("none" before any call)
    args,     \* the arguments of that call
    resp,     \* what the executor answered to that call
    execLog,  \* the executor invocations that call made, in order
    errLog,   \* the servers that call reported through g.log.error
    retval,   \* the value that call returned
    issued    \* history: which of create and start were called before

vars == <<fn, args, resp, execLog, errLog, retval, issued>>

----------------------------------------------------------------------------
(* Bounds *)

NumServers == 2      \* size of the pool the fan-out host sets are drawn from
MaxStatus == 2       \* exit statuses range over 0..MaxStatus

----------------------------------------------------------------------------
(* Input domains *)

ServerPool == <<"slave1", "slave2", "slave3", "slave4">>
Servers == {ServerPool[i] : i \in 1..NumServers}
Mnodes == {"master1", "slave1"}
MasterVols == {"mvol", "mastervol2"}
SlaveIps == {"10.0.0.5", "slave1.example.com"}
SlaveVols == {"svol", "slavevol2"}
\* user=None is <<>>, user=u is <<u>>
Users == {<<>>, <<"">>, <<"geoaccount">>}
GroupNames == {"geogroup", "grp2"}
Accounts == {"geoaccount", "acct2"}
Passwords == {"secret", "pw2"}
Directories == {"/var/mountbroker-root", "/mnt/broker"}
ConfigKeys == {"checkpoint", "sync-jobs"}
ConfigValues == {"now", "3"}

Statuses == 0..MaxStatus
Outs == {"", "/root/.ssh/id_rsa already exists."}
Errs == {"", "groupadd: group 'geogroup' already exists", "Permission denied"}
\* a command result (ret, out, err)
Triples == Statuses \X Outs \X Errs
\* a parallel result: host -> (ret, out, err)
ParallelResults(servers) == [servers -> Triples]
\* the orders in which results.items() may enumerate the hosts
Orders(servers) ==
    {o \in [1..Cardinality(servers) -> servers] :
        \A i, j \in 1..Cardinality(servers) : o[i] = o[j] => i = j}

----------------------------------------------------------------------------
(* Python primitives *)

\* sub in s
Contains(s, sub) ==
    \E i \in 1..(Len(s) - Len(sub) + 1) : SubSeq(s, i, i + Len(sub) - 1) = sub

\* presence test ('is not None') in place of the truth value
Truthy_notnone(user) == user # <<>>

\* truth value of an optional string: None and "" are false
Truthy(user) == user # <<>> /\ user[1] # ""

\* g.run(host, cmd) and g.run_parallel(hosts, cmd) as executor invocations
\* <<operation, target, command>>
Run(host, cmd) == <<"run", host, cmd>>
RunParallel(hosts, cmd) == <<"run_parallel", hosts, cmd>>

\* the effect of a call: the executor invocations it makes, the servers it
\* reports through g.log.error, the value it returns
Effect(runs, logged, ret) == <<runs, logged, ret>>

\* a function that forwards g.run's triple
Forward(host, cmd, r) == Effect(<<Run(host, cmd)>>, {}, r)

----------------------------------------------------------------------------
(* The functions of geo_rep_ops.py *)

georep_createpem(mnode, r) ==
    Forward(mnode, "gluster system:: execute gsec_create", r)

\* georep_ssh_keygen testing stderr instead of stdout
georep_ssh_keygen_stderr(mnode, r) ==
    LET cmd == "echo -e \"n\" | ssh-keygen -f ~/.ssh/id_rsa -q -N \"\""
        ret == r[1]
        err == r[3]
    IN  Effect(<<Run(mnode, cmd)>>, {},
               IF ret # 0 /\ ~Contains(err, "already exists")
               THEN FALSE ELSE TRUE)

georep_ssh_keygen(mnode, r) ==
    LET cmd == "echo -e \"n\" | ssh-keygen -f ~/.ssh/id_rsa -q -N \"\""
        ret == r[1]
        out == r[2]
    IN  Effect(<<Run(mnode, cmd)>>, {},
               IF ret # 0 /\ ~Contains(out, "already exists")
               THEN FALSE ELSE TRUE)

\* georep_ssh_copyid accepting 'already exists' as georep_ssh_keygen does
georep_ssh_copyid_exempt(mnode, tonode, user, passwd, r) ==
    LET cmd == "sshpass -p \"" \o passwd
               \o "\" ssh-copy-id -o StrictHostKeyChecking=no "
               \o user \o "@" \o tonode
        ret == r[1]
        out == r[2]
    IN  Effect(<<Run(mnode, cmd)>>, {},
               IF ret # 0 /\ ~Contains(out, "already exists")
               THEN FALSE ELSE TRUE)

georep_ssh_copyid(mnode, tonode, user, passwd, r) ==
    LET cmd == "sshpass -p \"" \o passwd
               \o "\" ssh-copy-id -o StrictHostKeyChecking=no "
               \o user \o "@" \o tonode
        ret == r[1]
    IN  Effect(<<Run(mnode, cmd)>>, {},
               IF ret # 0 THEN FALSE ELSE TRUE)

\* the loop of georep_groupadd with _rc assigned on success too
RECURSIVE groupadd_loop_lastwins(_, _, _)
groupadd_loop_lastwins(results, order, acc) ==
    IF order = <<>> THEN acc
    ELSE LET server == Head(order)
             retcode == results[server][1]
             err == results[server][3]
         IN  IF retcode # 0 /\ ~Contains(err, "already exists")
             THEN groupadd_loop_lastwins(results, Tail(order),
                                         <<FALSE, acc[2] \cup {server}>>)
             ELSE groupadd_loop_lastwins(results, Tail(order),
                                         <<TRUE, acc[2]>>)

\* the loop of georep_groupadd over results.items(), in the order given
RECURSIVE groupadd_loop(_, _, _)
groupadd_loop(results, order, acc) ==
    IF order = <<>> THEN acc
    ELSE LET server == Head(order)
             retcode == results[server][1]
             err == results[server][3]
         IN  IF retcode # 0 /\ ~Contains(err, "already exists")
             THEN groupadd_loop(results, Tail(order),
                                <<FALSE, acc[2] \cup {server}>>)
             ELSE groupadd_loop(results, Tail(order), acc)

georep_groupadd(servers, groupname, results, order) ==
    LET cmd == "groupadd " \o groupname
        acc == groupadd_loop(results, order, <<TRUE, {}>>)
    IN  Effect(<<RunParallel(servers, cmd)>>, acc[2],
               IF ~acc[1] THEN FALSE ELSE TRUE)

\* the loop of georep_geoaccount over results.items()
RECURSIVE geoaccount_loop(_, _, _)
geoaccount_loop(results, order, acc) ==
    IF order = <<>> THEN acc
    ELSE LET server == Head(order)
             retcode == results[server][1]
             err == results[server][3]
         IN  IF retcode # 0 /\ ~Contains(err, "already exists")
             THEN geoaccount_loop(results, Tail(order),
                                  <<FALSE, acc[2] \cup {server}>>)
             ELSE geoaccount_loop(results, Tail(order), acc)

georep_geoaccount(servers, groupname, groupaccount, results, order) ==
    LET cmd == "useradd -G " \o groupname \o " " \o groupaccount
        acc == geoaccount_loop(results, order, <<TRUE, {}>>)
    IN  Effect(<<RunParallel(servers, cmd)>>, acc[2],
               IF ~acc[1] THEN FALSE ELSE TRUE)

\* the loop of georep_geoaccount_setpasswd with the exemption of groupadd
RECURSIVE setpasswd_loop_exempt(_, _, _)
setpasswd_loop_exempt(results, order, acc) ==
    IF order = <<>> THEN acc
    ELSE LET server == Head(order)
             retcode == results[server][1]
             err == results[server][3]
         IN  IF retcode # 0 /\ ~Contains(err, "already exists")
             THEN setpasswd_loop_exempt(results, Tail(order),
                                        <<FALSE, acc[2] \cup {server}>>)
             ELSE setpasswd_loop_exempt(results, Tail(order), acc)

\* the loop of georep_geoaccount_setpasswd over results.items()
RECURSIVE setpasswd_loop(_, _, _)
setpasswd_loop(results, order, acc) ==
    IF order = <<>> THEN acc
    ELSE LET server == Head(order)
             retcode == results[server][1]
         IN  IF retcode # 0
             THEN setpasswd_loop(results, Tail(order),
                                 <<FALSE, acc[2] \cup {server}>>)
             ELSE setpasswd_loop(results, Tail(order), acc)

georep_geoaccount_setpasswd(servers, groupname, groupaccount, passwd, results, order) ==
    LET cmd == "echo " \o groupaccount \o ":" \o passwd \o " | chpasswd"
        acc == setpasswd_loop(results, order, <<TRUE, {}>>)
    IN  Effect(<<RunParallel(servers, cmd)>>, acc[2],
               IF ~acc[1] THEN FALSE ELSE TRUE)

\* georep_mountbroker_setup interpolating in parameter order
georep_mountbroker_setup_paramorder(mnode, groupname, directory, r) ==
    Forward(mnode,
            "gluster-mountbroker setup " \o groupname \o " " \o directory, r)

georep_mountbroker_setup(mnode, groupname, directory, r) ==
    Forward(mnode,
            "gluster-mountbroker setup " \o directory \o " " \o groupname, r)

georep_mountbroker_adduser(mnode, slavevol, useraccount, r) ==
    Forward(mnode,
            "gluster-mountbroker add " \o slavevol \o " " \o useraccount, r)

\* georep_mountbroker_status running the command again after a failure
georep_mountbroker_status_retry(mnode, r) ==
    LET cmd == "gluster-mountbroker status"
    IN  Effect(IF r[1] # 0 THEN <<Run(mnode, cmd), Run(mnode, cmd)>>
               ELSE <<Run(mnode, cmd)>>, {}, r)

georep_mountbroker_status(mnode, r) ==
    Forward(mnode, "gluster-mountbroker status", r)

georep_set_pemkeys(mnode, useraccount, mastervol, slavevol, r) ==
    Forward(mnode,
            "/usr/libexec/glusterfs/set_geo_rep_pem_keys.sh " \o useraccount
            \o " " \o mastervol \o " " \o slavevol, r)

georep_status(mnode, mastervol, slaveip, slavevol, user, r) ==
    LET cmd == IF Truthy(user)
               THEN "gluster volume geo-replication " \o mastervol \o " "
                    \o user[1] \o "@" \o slaveip \o "::" \o slavevol
                    \o " status"
               ELSE "gluster volume geo-replication " \o mastervol \o " "
                    \o slaveip \o "::" \o slavevol \o " status"
    IN  Forward(mnode, cmd, r)

georep_create(mnode, mastervol, slaveip, slavevol, user, force, r) ==
    LET cmd == IF Truthy(user)
               THEN IF force
                    THEN "gluster volume geo-replication " \o mastervol \o " "
                         \o user[1] \o "@" \o slaveip \o "::" \o slavevol
                         \o " create " \o "push-pem force"
                    ELSE "gluster volume geo-replication " \o mastervol \o " "
                         \o user[1] \o "@" \o slaveip \o "::" \o slavevol
                         \o " create " \o "push-pem"
               ELSE IF force
                    THEN "gluster volume geo-replication " \o mastervol \o " "
                         \o slaveip \o "::" \o slavevol
                         \o " create " \o "push-pem force"
                    ELSE "gluster volume geo-replication " \o mastervol \o " "
                         \o slaveip \o "::" \o slavevol \o " create push-pem"
    IN  Forward(mnode, cmd, r)

\* georep_config_get returning (ret, err, out)
georep_config_get_reordered(mnode, mastervol, slaveip, slavevol, config_key, r) ==
    Forward(mnode,
            "gluster volume geo-replication " \o mastervol \o " " \o slaveip
            \o "::" \o slavevol \o " config " \o config_key,
            <<r[1], r[3], r[2]>>)

georep_config_get(mnode, mastervol, slaveip, slavevol, config_key, r) ==
    Forward(mnode,
            "gluster volume geo-replication " \o mastervol \o " " \o slaveip
            \o "::" \o slavevol \o " config " \o config_key, r)

\* georep_config_set interpolating the value before the key
georep_config_set_swapped(mnode, mastervol, slaveip, slavevol, config, value, r) ==
    Forward(mnode,
            "gluster volume geo-replication " \o mastervol \o " " \o slaveip
            \o "::" \o slavevol \o " config " \o value \o " " \o config, r)

georep_config_set(mnode, mastervol, slaveip, slavevol, config, value, r) ==
    Forward(mnode,
            "gluster volume geo-replication " \o mastervol \o " " \o slaveip
            \o "::" \o slavevol \o " config " \o config \o " " \o value, r)

georep_start(mnode, mastervol, slaveip, slavevol, user, force, r) ==
    LET cmd == IF Truthy(user)
               THEN IF force
                    THEN "gluster volume geo-replication " \o mastervol \o " "
                         \o user[1] \o "@" \o slaveip \o "::" \o slavevol
                         \o " start force"
                    ELSE "gluster volume geo-replication " \o mastervol \o " "
                         \o user[1] \o "@" \o slaveip \o "::" \o slavevol
                         \o " start"
               ELSE IF force
                    THEN "gluster volume geo-replication " \o mastervol \o " "
                         \o slaveip \o "::" \o slavevol \o " start force"
                    ELSE "gluster volume geo-replication " \o mastervol \o " "
                         \o slaveip \o "::" \o slavevol \o " start"
    IN  Forward(mnode, cmd, r)

\* georep_stop whose forced command without user lacks the force word
georep_stop_noforce(mnode, mastervol, slaveip, slavevol, user, force, r) ==
    LET cmd == IF Truthy(user)
               THEN IF force
                    THEN "gluster volume geo-replication " \o mastervol \o " "
                         \o user[1] \o "@" \o slaveip \o "::" \o slavevol
                         \o " stop force"
                    ELSE "gluster volume geo-replication " \o mastervol \o " "
                         \o user[1] \o "@" \o slaveip \o "::" \o slavevol
                         \o " stop"
               ELSE "gluster volume geo-replication " \o mastervol \o " "
                    \o slaveip \o "::" \o slavevol \o " stop"
    IN  Forward(mnode, cmd, r)

georep_stop(mnode, mastervol, slaveip, slavevol, user, force, r) ==
    LET cmd == IF Truthy(user)
               THEN IF force
                    THEN "gluster volume geo-replication " \o mastervol \o " "
                         \o user[1] \o "@" \o slaveip \o "::" \o slavevol
                         \o " stop force"
                    ELSE "gluster volume geo-replication " \o mastervol \o " "
                         \o user[1] \o "@" \o slaveip \o "::" \o slavevol
                         \o " stop"
               ELSE IF force
                    THEN "gluster volume geo-replication " \o mastervol \o " "
                         \o slaveip \o "::" \o slavevol \o " stop force"
                    ELSE "gluster volume geo-replication " \o mastervol \o " "
                         \o slaveip \o "::" \o slavevol \o " stop"
    IN  Forward(mnode, cmd, r)

georep_pause(mnode, mastervol, slaveip, slavevol, user, r) ==
    LET cmd == IF Truthy(user)
               THEN "gluster volume geo-replication " \o mastervol \o " "
                    \o user[1] \o "@" \o slaveip \o "::" \o slavevol
                    \o " pause"
               ELSE "gluster volume geo-replication " \o mastervol \o " "
                    \o slaveip \o "::" \o slavevol \o " pause"
    IN  Forward(mnode, cmd, r)

\* georep_resume refusing, without asking the executor, to resume a session
\* that no earlier call has started
georep_resume_lifecycle(mnode, mastervol, slaveip, slavevol, user, r) ==
    LET cmd == IF Truthy(user)
               THEN "gluster volume geo-replication " \o mastervol \o " "
                    \o user[1] \o "@" \o slaveip \o "::" \o slavevol
                    \o " resume"
               ELSE "gluster volume geo-replication " \o mastervol \o " "
                    \o slaveip \o "::" \o slavevol \o " resume"
    IN  IF "georep_start" \in issued
        THEN Forward(mnode, cmd, r)
        ELSE Effect(<<>>, {}, <<1, "", "session is not started">>)

georep_resume(mnode, mastervol, slaveip, slavevol, user, r) ==
    LET cmd == IF Truthy(user)
               THEN "gluster volume geo-replication " \o mastervol \o " "
                    \o user[1] \o "@" \o slaveip \o "::" \o slavevol
                    \o " resume"
               ELSE "gluster volume geo-replication " \o mastervol \o " "
                    \o slaveip \o "::" \o slavevol \o " resume"
    IN  Forward(mnode, cmd, r)

\* georep_delete without its 'if user' branch
georep_delete_nouser(mnode, mastervol, slaveip, slavevol, user, r) ==
    Forward(mnode,
            "gluster volume geo-replication " \o mastervol \o " " \o slaveip
            \o "::" \o slavevol \o " delete", r)

georep_delete(mnode, mastervol, slaveip, slavevol, user, r) ==
    LET cmd == IF Truthy(user)
               THEN "gluster volume geo-replication " \o mastervol \o " "
                    \o user[1] \o "@" \o slaveip \o "::" \o slavevol
                    \o " delete"
               ELSE "gluster volume geo-replication " \o mastervol \o " "
                    \o slaveip \o "::" \o slavevol \o " delete"
    IN  Forward(mnode, cmd, r)

----------------------------------------------------------------------------
(* The state machine: one action per function of the library *)

Init ==
    /\ fn = "none"
    /\ args = <<>>
    /\ resp = <<>>
    /\ execLog = <<>>
    /\ errLog = {}
    /\ retval = <<>>
    /\ issued = {}

\* the calls the history remembers: those that would establish a session
Remembered == {"georep_create", "georep_start"}

\* the call of function f with arguments a, answered r, has effect res
Apply(f, a, r, res) ==
    /\ fn' = f
    /\ args' = a
    /\ resp' = r
    /\ execLog' = res[1]
    /\ errLog' = res[2]
    /\ retval' = res[3]
    /\ issued' = issued \cup ({f} \cap Remembered)

Call_georep_createpem ==
    /\ fn = "none"
    /\ \E mnode \in Mnodes, r \in Triples :
        Apply("georep_createpem", <<mnode>>, r,
              georep_createpem(mnode, r))

Call_georep_ssh_keygen ==
    /\ fn = "none"
    /\ \E mnode \in Mnodes, r \in Triples :
        Apply("georep_ssh_keygen", <<mnode>>, r,
              georep_ssh_keygen(mnode, r))

Call_georep_ssh_copyid ==
    /\ fn = "none"
    /\ \E mnode \in Mnodes, tonode \in SlaveIps, user \in Accounts,
       passwd \in Passwords, r \in Triples :
        Apply("georep_ssh_copyid",
              <<mnode, tonode, user, passwd>>, r,
              georep_ssh_copyid(mnode, tonode, user, passwd, r))

Call_georep_groupadd ==
    /\ fn = "none"
    /\ \E servers \in SUBSET Servers, groupname \in GroupNames :
      \E results \in ParallelResults(servers), order \in Orders(servers) :
        Apply("georep_groupadd",
              <<servers, groupname>>, results,
              georep_groupadd(servers, groupname, results, order))

Call_georep_geoaccount ==
    /\ fn = "none"
    /\ \E servers \in SUBSET Servers, groupname \in GroupNames,
       groupaccount \in Accounts :
      \E results \in ParallelResults(servers), order \in Orders(servers) :
        Apply("georep_geoaccount",
              <<servers, groupname, groupaccount>>, results,
              georep_geoaccount(servers, groupname, groupaccount, results,
                                order))

Call_georep_geoaccount_setpasswd ==
    /\ fn = "none"
    /\ \E servers \in SUBSET Servers, groupname \in GroupNames,
       groupaccount \in Accounts, passwd \in Passwords :
      \E results \in ParallelResults(servers), order \in Orders(servers) :
        Apply("georep_geoaccount_setpasswd",
              <<servers, groupname, groupaccount, passwd>>, results,
              georep_geoaccount_setpasswd(servers, groupname, groupaccount,
                                          passwd, results, order))

Call_georep_mountbroker_setup ==
    /\ fn = "none"
    /\ \E mnode \in Mnodes, groupname \in GroupNames,
       directory \in Directories, r \in Triples :
        Apply("georep_mountbroker_setup",
              <<mnode, groupname, directory>>, r,
              georep_mountbroker_setup(mnode, groupname, directory, r))

Call_georep_mountbroker_adduser ==
    /\ fn = "none"
    /\ \E mnode \in Mnodes, slavevol \in SlaveVols, useraccount \in Accounts,
       r \in Triples :
        Apply("georep_mountbroker_adduser",
              <<mnode, slavevol, useraccount>>, r,
              georep_mountbroker_adduser(mnode, slavevol, useraccount, r))

Call_georep_mountbroker_status ==
    /\ fn = "none"
    /\ \E mnode \in Mnodes, r \in Triples :
        Apply("georep_mountbroker_status", <<mnode>>, r,
              georep_mountbroker_status(mnode, r))

Call_georep_set_pemkeys ==
    /\ fn = "none"
    /\ \E mnode \in Mnodes, useraccount \in Accounts, mastervol \in MasterVols,
       slavevol \in SlaveVols, r \in Triples :
        Apply("georep_set_pemkeys",
              <<mnode, useraccount, mastervol, slavevol>>, r,
              georep_set_pemkeys(mnode, useraccount, mastervol, slavevol, r))

\* the arguments shared by the session operations
SessionArgs(mnode, mastervol, slaveip, slavevol, user, force) ==
    <<mnode, mastervol, slaveip, slavevol, user, force>>

Call_georep_status ==
    /\ fn = "none"
    /\ \E mnode \in Mnodes, mastervol \in MasterVols, slaveip \in SlaveIps,
       slavevol \in SlaveVols, user \in Users, r \in Triples :
        Apply("georep_status",
              SessionArgs(mnode, mastervol, slaveip, slavevol, user, FALSE), r,
              georep_status(mnode, mastervol, slaveip, slavevol, user, r))

Call_georep_create ==
    /\ fn = "none"
    /\ \E mnode \in Mnodes, mastervol \in MasterVols, slaveip \in SlaveIps,
       slavevol \in SlaveVols, user \in Users, force \in BOOLEAN,
       r \in Triples :
        Apply("georep_create",
              SessionArgs(mnode, mastervol, slaveip, slavevol, user, force), r,
              georep_create(mnode, mastervol, slaveip, slavevol, user, force,
                            r))

Call_georep_config_get ==
    /\ fn = "none"
    /\ \E mnode \in Mnodes, mastervol \in MasterVols, slaveip \in SlaveIps,
       slavevol \in SlaveVols, config_key \in ConfigKeys, r \in Triples :
        Apply("georep_config_get",
              <<mnode, mastervol, slaveip, slavevol, config_key>>, r,
              georep_config_get(mnode, mastervol, slaveip, slavevol,
                                config_key, r))

Call_georep_config_set ==
    /\ fn = "none"
    /\ \E mnode \in Mnodes, mastervol \in MasterVols, slaveip \in SlaveIps,
       slavevol \in SlaveVols, config \in ConfigKeys, value \in ConfigValues,
       r \in Triples :
        Apply("georep_config_set",
              <<mnode, mastervol, slaveip, slavevol, config, value>>, r,
              georep_config_set(mnode, mastervol, slaveip, slavevol, config,
                                value, r))

Call_georep_start ==
    /\ fn = "none"
    /\ \E mnode \in Mnodes, mastervol \in MasterVols, slaveip \in SlaveIps,
       slavevol \in SlaveVols, user \in Users, force \in BOOLEAN,
       r \in Triples :
        Apply("georep_start",
              SessionArgs(mnode, mastervol, slaveip, slavevol, user, force), r,
              georep_start(mnode, mastervol, slaveip, slavevol, user, force,
                           r))

Call_georep_stop ==
    /\ fn = "none"
    /\ \E mnode \in Mnodes, mastervol \in MasterVols, slaveip \in SlaveIps,
       slavevol \in SlaveVols, user \in Users, force \in BOOLEAN,
       r \in Triples :
        Apply("georep_stop",
              SessionArgs(mnode, mastervol, slaveip, slavevol, user, force), r,
              georep_stop(mnode, mastervol, slaveip, slavevol, user, force, r))

Call_georep_pause ==
    /\ fn = "none"
    /\ \E mnode \in Mnodes, mastervol \in MasterVols, slaveip \in SlaveIps,
       slavevol \in SlaveVols, user \in Users, r \in Triples :
        Apply("georep_pause",
              SessionArgs(mnode, mastervol, slaveip, slavevol, user, FALSE), r,
              georep_pause(mnode, mastervol, slaveip, slavevol, user, r))

Call_georep_resume ==
    /\ fn = "none"
    /\ \E mnode \in Mnodes, mastervol \in MasterVols, slaveip \in SlaveIps,
       slavevol \in SlaveVols, user \in Users, r \in Triples :
        Apply("georep_resume",
              SessionArgs(mnode, mastervol, slaveip, slavevol, user, FALSE), r,
              georep_resume(mnode, mastervol, slaveip, slavevol, user, r))

Call_georep_delete ==
    /\ fn = "none"
    /\ \E mnode \in Mnodes, mastervol \in MasterVols, slaveip \in SlaveIps,
       slavevol \in SlaveVols, user \in Users, r \in Triples :
        Apply("georep_delete",
              SessionArgs(mnode, mastervol, slaveip, slavevol, user, FALSE), r,
              georep_delete(mnode, mastervol, slaveip, slavevol, user, r))

\* the call is over: the caller has the value, the library keeps nothing
Return ==
    /\ fn # "none"
    /\ fn' = "none"
    /\ args' = <<>>
    /\ resp' = <<>>
    /\ execLog' = <<>>
    /\ errLog' = {}
    /\ retval' = <<>>
    /\ UNCHANGED issued

Next ==
    \/ Call_georep_createpem
    \/ Call_georep_ssh_keygen
    \/ Call_georep_ssh_copyid
    \/ Call_georep_groupadd
    \/ Call_georep_geoaccount
    \/ Call_georep_geoaccount_setpasswd
    \/ Call_georep_mountbroker_setup
    \/ Call_georep_mountbroker_adduser
    \/ Call_georep_mountbroker_status
    \/ Call_georep_set_pemkeys
    \/ Call_georep_status
    \/ Call_georep_create
    \/ Call_georep_config_get
    \/ Call_georep_config_set
    \/ Call_georep_start
    \/ Call_georep_stop
    \/ Call_georep_pause
    \/ Call_georep_resume
    \/ Call_georep_delete
    \/ Return

Spec == Init /\ [][Next]_vars

----------------------------------------------------------------------------
(* Vocabulary of the properties *)

\* the space-separated words of a command line, empty words included, so
\* two command lines with the same words are the same string
RECURSIVE WordsFrom(_, _, _)
WordsFrom(s, i, cur) ==
    IF i > Len(s) THEN <<cur>>
    ELSE IF SubSeq(s, i, i) = " "
         THEN <<cur>> \o WordsFrom(s, i + 1, "")
         ELSE WordsFrom(s, i + 1, cur \o SubSeq(s, i, i))

Words(s) == WordsFrom(s, 1, "")

Called == fn # "none"
\* the command, the operation and the target of the first executor invocation
EmittedCmd == execLog[1][3]
EmittedOp == execLog[1][1]
EmittedTarget == execLog[1][2]

SessionOps ==
    {"georep_status", "georep_create", "georep_start", "georep_stop",
     "georep_pause", "georep_resume", "georep_delete"}
ForceOps == {"georep_create", "georep_start", "georep_stop"}
FanOutOps ==
    {"georep_groupadd", "georep_geoaccount", "georep_geoaccount_setpasswd"}
PassThroughOps ==
    {"georep_createpem", "georep_mountbroker_setup",
     "georep_mountbroker_adduser", "georep_mountbroker_status",
     "georep_set_pemkeys", "georep_status", "georep_create",
     "georep_config_get", "georep_config_set", "georep_start", "georep_stop",
     "georep_pause", "georep_resume", "georep_delete"}

\* the subcommand words of a session operation, without the force token
Subcommand(f) ==
    CASE f = "georep_status" -> <<"status">>
      [] f = "georep_create" -> <<"create", "push-pem">>
      [] f = "georep_start" -> <<"start">>
      [] f = "georep_stop" -> <<"stop">>
      [] f = "georep_pause" -> <<"pause">>
      [] f = "georep_resume" -> <<"resume">>
      [] f = "georep_delete" -> <<"delete">>

AlreadyExists(text) == Contains(text, "already exists")

----------------------------------------------------------------------------
(* C1: in the seven session operations the command is                      *)
(* 'gluster volume geo-replication <master> <endpoint> <subcommand...>',   *)
(* the endpoint being the second positional argument: it is exactly        *)
(* '<user>@<slavehost>::<slavevol>' when a user name is supplied and       *)
(* exactly '<slavehost>::<slavevol>' when the user is omitted.             *)
C1_AddressGrammar ==
    fn \in SessionOps =>
        LET w == Words(EmittedCmd)
            mastervol == args[2]
            slaveip == args[3]
            slavevol == args[4]
            user == args[5]
        IN  /\ Len(w) >= 6
            /\ SubSeq(w, 1, 4) = <<"gluster", "volume", "geo-replication",
                                   mastervol>>
            /\ w[6] = Subcommand(fn)[1]
            /\ user = <<>> => w[5] = slaveip \o "::" \o slavevol
            /\ (user # <<>> /\ user # <<"">>) =>
                   w[5] = user[1] \o "@" \o slaveip \o "::" \o slavevol

\* delete was called with a user and emitted the user@host::vol endpoint
C1_Witness ==
    /\ fn = "georep_delete"
    /\ args[5] = <<"geoaccount">>
    /\ Words(EmittedCmd)[5] = "geoaccount@10.0.0.5::svol"

(* C2: create, start and stop end with their subcommand followed by the    *)
(* word 'force' as the last word exactly when force is true, whether a     *)
(* user is given or not; create of mvol to geoaccount@10.0.0.5::svol with  *)
(* force emits exactly the command of the specification's example.         *)
C2_ForceToken ==
    fn \in ForceOps =>
        LET w == Words(EmittedCmd)
            force == args[6]
            sub == Subcommand(fn)
        IN  /\ force => SubSeq(w, 6, Len(w)) = sub \o <<"force">>
            /\ ~force => SubSeq(w, 6, Len(w)) = sub
            /\ (/\ fn = "georep_create"
                /\ SubSeq(args, 2, 6) = <<"mvol", "10.0.0.5", "svol",
                                          <<"geoaccount">>, TRUE>>)
               => EmittedCmd = "gluster volume geo-replication mvol geoaccount@10.0.0.5::svol create push-pem force"

\* the example call of the specification has happened
C2_Witness ==
    /\ fn = "georep_create"
    /\ SubSeq(args, 2, 6) = <<"mvol", "10.0.0.5", "svol", <<"geoaccount">>,
                              TRUE>>
    /\ Words(EmittedCmd)[8] = "force"

(* C3: every single-host operation that forwards the executor's result     *)
(* returns the executor's triple itself: same status, same stdout, same    *)
(* stderr, in that order, also when the status is not zero.                *)
C3_PassThrough ==
    fn \in PassThroughOps =>
        /\ Len(retval) = 3
        /\ retval[1] = resp[1]
        /\ retval[2] = resp[2]
        /\ retval[3] = resp[3]

\* a failing answer with distinct stdout and stderr was forwarded
C3_Witness ==
    /\ fn = "georep_config_get"
    /\ resp = <<2, "", "Permission denied">>
    /\ retval = <<2, "", "Permission denied">>

(* C4: georep_groupadd and georep_geoaccount return false if and only if   *)
(* some host has a non-zero status and a stderr without 'already exists',  *)
(* for every host set, the empty one included, and whatever the order in   *)
(* which the hosts are folded.                                             *)
C4_FanOutReduction ==
    fn \in {"georep_groupadd", "georep_geoaccount"} =>
        (retval = FALSE <=>
            \E h \in args[1] : resp[h][1] # 0 /\ ~AlreadyExists(resp[h][3]))

\* one host failed with 'already exists', the other succeeded: true
C4_Witness ==
    /\ fn = "georep_groupadd"
    /\ args[1] = {"slave1", "slave2"}
    /\ resp["slave1"][1] # 0 /\ AlreadyExists(resp["slave1"][3])
    /\ resp["slave2"][1] = 0
    /\ retval = TRUE

(* C5: georep_geoaccount_setpasswd runs 'echo <account>:<password> |       *)
(* chpasswd' on the whole host set and returns true if and only if every   *)
(* host's status is 0; 'already exists' in a failing host's output does    *)
(* not exempt it.                                                          *)
C5_SetPasswd ==
    fn = "georep_geoaccount_setpasswd" =>
        /\ retval = (\A h \in args[1] : resp[h][1] = 0)
        /\ Words(EmittedCmd) = <<"echo", args[3] \o ":" \o args[4], "|",
                                 "chpasswd">>
        /\ EmittedOp = "run_parallel"
        /\ EmittedTarget = args[1]

\* a host failed with 'already exists' in its stderr: false
C5_Witness ==
    /\ fn = "georep_geoaccount_setpasswd"
    /\ \E h \in args[1] : resp[h][1] # 0 /\ AlreadyExists(resp[h][3])
    /\ retval = FALSE

(* C6 as stated: georep_ssh_keygen returns true exactly when the status is *)
(* 0 or stdout or stderr contains 'already exists'.                        *)
C6_Original ==
    fn = "georep_ssh_keygen" =>
        (retval = TRUE <=>
            \/ resp[1] = 0
            \/ AlreadyExists(resp[2])
            \/ AlreadyExists(resp[3]))

(* C6 amended: georep_ssh_keygen returns true exactly when the status is 0 *)
(* or stdout contains 'already exists'; stderr is not looked at.           *)
C6_KeygenStdoutOnly ==
    fn = "georep_ssh_keygen" =>
        (retval = TRUE <=> (resp[1] = 0 \/ AlreadyExists(resp[2])))

\* non-zero status, 'already exists' on stdout: true
C6_Witness ==
    /\ fn = "georep_ssh_keygen"
    /\ resp[1] # 0
    /\ AlreadyExists(resp[2])
    /\ ~AlreadyExists(resp[3])
    /\ retval = TRUE

C8_ConfigGrammar ==
    fn \in {"georep_config_get", "georep_config_set"} =>
        LET w == Words(EmittedCmd)
            base == <<"gluster", "volume", "geo-replication", args[2],
                      args[3] \o "::" \o args[4], "config", args[5]>>
        IN  /\ fn = "georep_config_get" => w = base
            /\ fn = "georep_config_set" =>
                 /\ w = base \o <<args[6]>>
                 /\ EmittedCmd =
                      georep_config_get(args[1], args[2], args[3], args[4],
                                        args[5], resp)[1][1][3]
                      \o " " \o args[6]
            /\ ~Contains(EmittedCmd, "@")

\* a value was set
C8_Witness ==
    /\ fn = "georep_config_set"
    /\ Words(EmittedCmd)[7] = "checkpoint"
    /\ Words(EmittedCmd)[8] = "now"

(* C9: the mountbroker and key-push operations place their arguments in    *)
(* the order of the command grammar: setup <directory> <group>, add        *)
(* <slavevol> <useraccount>, set_geo_rep_pem_keys.sh <useraccount>         *)
(* <mastervol> <slavevol>; createpem and mountbroker status emit constant  *)
(* commands.                                                               *)
C9_PositionalOrder ==
    /\ fn = "georep_mountbroker_setup" =>
           Words(EmittedCmd) =
               <<"gluster-mountbroker", "setup", args[3], args[2]>>
    /\ fn = "georep_mountbroker_adduser" =>
           Words(EmittedCmd) =
               <<"gluster-mountbroker", "add", args[2], args[3]>>
    /\ fn = "georep_set_pemkeys" =>
           Words(EmittedCmd) =
               <<"/usr/libexec/glusterfs/set_geo_rep_pem_keys.sh", args[2],
                 args[3], args[4]>>
    /\ fn = "georep_createpem" =>
           EmittedCmd = "gluster system:: execute gsec_create"
    /\ fn = "georep_mountbroker_status" =>
           EmittedCmd = "gluster-mountbroker status"

\* setup was called with (group, directory) and emitted directory first
C9_Witness ==
    /\ fn = "georep_mountbroker_setup"
    /\ args[2] = "geogroup"
    /\ args[3] = "/var/mountbroker-root"
    /\ EmittedCmd = "gluster-mountbroker setup /var/mountbroker-root geogroup"

(* C10: every call invokes the executor exactly once, whatever the         *)
(* executor answers: one run on the given node for a single-host           *)
(* operation, one run_parallel over the whole host set for a fan-out       *)
(* operation; a failing answer causes no second invocation.                *)
C10_ExactlyOnce ==
    Called =>
        /\ Len(execLog) = 1
        /\ EmittedOp = (IF fn \in FanOutOps THEN "run_parallel" ELSE "run")
        /\ EmittedTarget = args[1]

\* the executor failed and was still invoked once only
C10_Witness ==
    /\ fn = "georep_ssh_keygen"
    /\ resp[1] # 0
    /\ retval = FALSE
    /\ Len(execLog) = 1

\* the words of the command a call of f with arguments a has to emit, as
\* the command grammar gives them from the arguments alone
GrammarWords(f, a) ==
    IF f \in SessionOps
    THEN <<"gluster", "volume", "geo-replication", a[2],
           (IF a[5] \in {<<>>, <<"">>} THEN "" ELSE a[5][1] \o "@")
           \o a[3] \o "::" \o a[4]>>
         \o Subcommand(f)
         \o (IF f \in ForceOps /\ a[6] THEN <<"force">> ELSE <<>>)
    ELSE CASE f = "georep_createpem" ->
                <<"gluster", "system::", "execute", "gsec_create">>
           [] f = "georep_ssh_keygen" ->
                <<"echo", "-e", "\"n\"", "|", "ssh-keygen", "-f",
                  "~/.ssh/id_rsa", "-q", "-N", "\"\"">>
           [] f = "georep_ssh_copyid" ->
                <<"sshpass", "-p", "\"" \o a[4] \o "\"", "ssh-copy-id", "-o",
                  "StrictHostKeyChecking=no", a[3] \o "@" \o a[2]>>
           [] f = "georep_groupadd" -> <<"groupadd", a[2]>>
           [] f = "georep_geoaccount" -> <<"useradd", "-G", a[2], a[3]>>
           [] f = "georep_geoaccount_setpasswd" ->
                <<"echo", a[3] \o ":" \o a[4], "|", "chpasswd">>
           [] f = "georep_mountbroker_setup" ->
                <<"gluster-mountbroker", "setup", a[3], a[2]>>
           [] f = "georep_mountbroker_adduser" ->
                <<"gluster-mountbroker", "add", a[2], a[3]>>
           [] f = "georep_mountbroker_status" ->
                <<"gluster-mountbroker", "status">>
           [] f = "georep_set_pemkeys" ->
                <<"/usr/libexec/glusterfs/set_geo_rep_pem_keys.sh", a[2],
                  a[3], a[4]>>
           [] f = "georep_config_get" ->
                <<"gluster", "volume", "geo-replication", a[2],
                  a[3] \o "::" \o a[4], "config", a[5]>>
           [] f = "georep_config_set" ->
                <<"gluster", "volume", "geo-replication", a[2],
                  a[3] \o "::" \o a[4], "config", a[5], a[6]>>

\* the value a call of f with arguments a has to return when the executor
\* answers r, as the result column of the operation table gives it
TableResult(f, a, r) ==
    CASE f \in PassThroughOps -> r
      [] f = "georep_ssh_keygen" -> (r[1] = 0 \/ AlreadyExists(r[2]))
      [] f = "georep_ssh_copyid" -> (r[1] = 0)
      [] f \in {"georep_groupadd", "georep_geoaccount"} ->
           (\A h \in a[1] : r[h][1] = 0 \/ AlreadyExists(r[h][3]))
      [] f = "georep_geoaccount_setpasswd" -> (\A h \in a[1] : r[h][1] = 0)

(* C11: the library keeps no state and enforces no session life cycle:     *)
(* whatever calls came before (create or start issued or not, issued       *)
(* once or again), every call is dispatched to the executor, the command   *)
(* it emits is the one its own arguments give, and the value it returns    *)
(* is the one its own arguments and the executor's answer give.            *)
C11_Stateless ==
    Called =>
        /\ Len(execLog) = 1
        /\ Words(EmittedCmd) = GrammarWords(fn, args)
        /\ retval = TableResult(fn, args, resp)

\* resume was dispatched although no session was ever created or started
C11_Witness ==
    /\ fn = "georep_resume"
    /\ issued = {}
    /\ Len(execLog) = 1
    /\ Words(EmittedCmd)[6] = "resume"
    /\ retval = resp

(* C12: the user is tested for truthiness, so in the seven session         *)
(* operations a user given as the empty string is treated exactly like an  *)
(* omitted user: the command is the one without user prefix, with the      *)
(* endpoint '<slavehost>::<slavevol>', and no emitted endpoint starts      *)
(* with '@'.                                                               *)
C12_EmptyUserOmitted ==
    fn \in SessionOps =>
        LET w == Words(EmittedCmd)
            force == fn \in ForceOps /\ args[6]
        IN  /\ args[5] = <<"">> =>
                w = <<"gluster", "volume", "geo-replication", args[2],
                      args[3] \o "::" \o args[4]>>
                    \o Subcommand(fn)
                    \o (IF force THEN <<"force">> ELSE <<>>)
            /\ SubSeq(w[5], 1, 1) # "@"

\* create was called with user="" and emitted the bare endpoint
C12_Witness ==
    /\ fn = "georep_create"
    /\ args[5] = <<"">>
    /\ Words(EmittedCmd)[5] = "10.0.0.5::svol"

====
